---------------------------- MODULE Spec2Model ----------------------------
(***************************************************************************)
(* Model of inficon.py: the Inficon gauge protocol (framing, checksum,     *)
(* send/receive over a serial port with timeouts) and the main loop that   *)
(* polls the gauges and writes CSV records.                                *)
(*                                                                         *)
(* Python 2 strings are byte strings: they are modelled as sequences of    *)
(* byte values 0..255.  A one-character string is a sequence of length 1,  *)
(* the empty string is << >>.                                              *)
(***************************************************************************)
EXTENDS Integers, Sequences, FiniteSets, TLC

(***************************************************************************)
(* Bounds of the model.                                                    *)
(***************************************************************************)
MaxIter == 2          \* iterations of the `while True` loop that are explored
MaxRx == 2            \* bytes that may wait in the input buffer of the port
MaxGaugeArgLen == 3   \* length of a --gauges argument at startup
MaxLineLen == 1       \* length of a line typed at the interactive prompt
MaxCmdLen == 2        \* length of a command sent through the loopback plug
MaxGarbage == 6       \* stray bytes the loopback plug puts before the frame
MaxPayloadLen == 4    \* length of a payload handed to the reading extraction

(***************************************************************************)
(* Byte values named by the program.                                       *)
(***************************************************************************)
STX == 2
Retries == 5
Comma == 44
Hyphen == 45
Newline == 10
ChrS == 83
Chr0 == 48
Chr9 == 57
ChrT == 84
ChrSpace == 32
ChrPlus == 43
ByteMask == 255
MaxChr == 255
GaugeRange == 10

\* bytes a --gauges argument is drawn from: '0' '1' ',' '-' '+' 'x'
GaugeChars == {Chr0, Chr0 + 1, Comma, Hyphen, ChrPlus, 120}
\* bytes a typed line is drawn from: 'S' and ' '
LineChars == {ChrS, ChrSpace}
\* bytes the device (or line noise) may put on the wire
RxBytes == {STX, Hyphen, Chr0 + 1, Hyphen + Chr0 + 1}
\* bytes of a command sent through the loopback plug
CmdBytes == {STX, Hyphen, 200, MaxChr}
\* stray bytes on the looped line (none of them STX)
GarbageBytes == {0, Chr0 + 1}
\* bytes of a payload handed to the reading extraction: '1' '.' 'E' '-' newline
PayloadChars == {Chr0 + 1, 46, 69, Hyphen, Newline}

Min(a, b) == IF a < b THEN a ELSE b

SeqsUpTo(S, n) == UNION {[1..k -> S] : k \in 0..n}

Whitespace == {9, 10, 11, 12, 13, ChrSpace}

IsDigit(b) == b \in Chr0..Chr9

None == [none |-> TRUE, val |-> << >>]
Str(s) == [none |-> FALSE, val |-> s]

-----------------------------------------------------------------------------
(***************************************************************************)
(* Pure functions of the program.                                          *)
(***************************************************************************)

\* the sum of ord(char) over the characters of line (summed by halves, so
\* that the evaluation of a line of 255 characters stays shallow)
RECURSIVE SumBytes(_)
SumBytes(line) ==
  IF line = << >> THEN 0
  ELSE IF Len(line) = 1 THEN line[1]
  ELSE LET h == Len(line) \div 2
       IN  SumBytes(SubSeq(line, 1, h)) + SumBytes(SubSeq(line, h + 1, Len(line)))

\* a checksum whose loop stops one byte early
checksumSkipsLast(line) ==
  << SumBytes(SubSeq(line, 1, Len(line) - 1)) % (ByteMask + 1) >>

\* checksum(line): chr(chk & 255), a one-character string
checksum(line) == << SumBytes(line) % (ByteMask + 1) >>

\* a frame whose checksum also covers the STX byte
FrameChecksumsHeader(c) == <<STX, Len(c)>> \o c \o checksum(<<STX>> \o c)

\* a frame whose length byte counts the whole frame
FrameLengthCountsFrame(c) == <<STX, Len(c) + 3>> \o c \o checksum(c)

\* the bytes send() hands to port.write: STX + chr(len(cmd)) + cmd + str(checksum(cmd))
Frame(c) == <<STX, Len(c)>> \o c \o checksum(c)

\* str.rstrip(): drop trailing whitespace
RECURSIVE RStrip(_)
RStrip(s) ==
  IF s # << >> /\ s[Len(s)] \in Whitespace
  THEN RStrip(SubSeq(s, 1, Len(s) - 1))
  ELSE s

\* str.strip(), used by int()
RECURSIVE LStrip(_)
LStrip(s) == IF s # << >> /\ Head(s) \in Whitespace THEN LStrip(Tail(s)) ELSE s

\* str.split(','): always at least one element
RECURSIVE Split(_)
Split(s) ==
  IF \A i \in 1..Len(s) : s[i] # Comma
  THEN << s >>
  ELSE LET i == CHOOSE k \in 1..Len(s) :
                  s[k] = Comma /\ \A j \in 1..(k - 1) : s[j] # Comma
       IN  << SubSeq(s, 1, i - 1) >> \o Split(SubSeq(s, i + 1, Len(s)))

\* ','.join(fields)
RECURSIVE Join(_)
Join(fields) ==
  IF Len(fields) = 0 THEN << >>
  ELSE IF Len(fields) = 1 THEN fields[1]
  ELSE fields[1] \o <<Comma>> \o Join(Tail(fields))

RECURSIVE DigitsValue(_)
DigitsValue(d) ==
  IF d = << >> THEN 0
  ELSE 10 * DigitsValue(SubSeq(d, 1, Len(d) - 1)) + (d[Len(d)] - Chr0)

\* int(s): surrounding whitespace is stripped, one optional sign, then digits
IntBody(s) == LET t == LStrip(RStrip(s))
              IN  IF t # << >> /\ Head(t) \in {ChrPlus, Hyphen} THEN Tail(t) ELSE t
IntOk(s) == LET d == IntBody(s)
            IN  d # << >> /\ \A i \in 1..Len(d) : IsDigit(d[i])
IntValue(s) == LET t == LStrip(RStrip(s))
               IN  IF Head(t) = Hyphen THEN 0 - DigitsValue(IntBody(s))
                   ELSE DigitsValue(IntBody(s))

\* the first gauge the sanity check rejects, 0 if it accepts them all
GaugeOk(g) == IntOk(g) /\ IntValue(g) \in 0..(GaugeRange - 1)
\* a sanity check that looks at the first gauge only
FirstBadGaugeOnlyFirst(gs) == IF GaugeOk(gs[1]) THEN 0 ELSE 1

FirstBadGauge(gs) ==
  IF \A i \in 1..Len(gs) : GaugeOk(gs[i]) THEN 0
  ELSE CHOOSE i \in 1..Len(gs) : ~GaugeOk(gs[i]) /\ \A j \in 1..(i - 1) : GaugeOk(gs[j])

\* re.match(r"(.*-\d+)", s): '.' stops at a newline, '.*' is greedy, so the
\* group ends after the digits that follow the last hyphen with a digit after it
FirstLine(s) ==
  IF \A i \in 1..Len(s) : s[i] # Newline THEN s
  ELSE LET i == CHOOSE k \in 1..Len(s) :
                  s[k] = Newline /\ \A j \in 1..(k - 1) : s[j] # Newline
       IN  SubSeq(s, 1, i - 1)
HyphenDigitAt(l) == {i \in 1..(Len(l) - 1) : l[i] = Hyphen /\ IsDigit(l[i + 1])}
Matches(s) == HyphenDigitAt(FirstLine(s)) # {}
\* a pattern whose '.*' is not greedy: the group ends at the first hyphen with digits
MatchGroupNonGreedy(s) ==
  LET l == FirstLine(s)
      i == CHOOSE k \in HyphenDigitAt(l) : \A m \in HyphenDigitAt(l) : k <= m
      j == CHOOSE k \in (i + 1)..Len(l) :
             /\ \A m \in (i + 1)..k : IsDigit(l[m])
             /\ (k = Len(l) \/ ~IsDigit(l[k + 1]))
  IN  SubSeq(l, 1, j)

MatchGroup(s) ==
  LET l == FirstLine(s)
      i == CHOOSE k \in HyphenDigitAt(l) : \A m \in HyphenDigitAt(l) : m <= k
      j == CHOOSE k \in (i + 1)..Len(l) :
             /\ \A m \in (i + 1)..k : IsDigit(l[m])
             /\ (k = Len(l) \/ ~IsDigit(l[k + 1]))
  IN  SubSeq(l, 1, j)
Reading(s) == IF Matches(s) THEN MatchGroup(s) ELSE << >>

\* str(x) as `print` shows it: None prints as the word None
NoneWord == <<78, 111, 110, 101>>
StrOf(r) == IF r.none THEN NoneWord ELSE r.val

\* str(datetime.datetime.now()): a text naming the instant
TimeStr(t) == <<ChrT, Chr0 + t>>

\* str.format: fills the {} fields of a template; a template that has none is unchanged
RECURSIVE Format(_, _)
Format(tmpl, args) ==
  IF tmpl = << >> THEN << >>
  ELSE IF Head(tmpl) = "{}" /\ args # << >>
       THEN <<Head(args)>> \o Format(Tail(tmpl), Tail(args))
       ELSE <<Head(tmpl)>> \o Format(Tail(tmpl), args)


-----------------------------------------------------------------------------
(***************************************************************************)
(* State of the process and of its environment.                            *)
(***************************************************************************)
VARIABLES
  ARGS,       \* parsed command line: gauges, interactive, oneshot, log
  gauges,     \* ARGS.gauges.split(',')
  pc,         \* position of the process
  exitcode,   \* -1 while running, else the exit status
  raised,     \* the uncaught exception that ended the process, "" if none
  ser,        \* "closed" or "open": the serial.Serial object
  rx,         \* bytes received by the port and not yet read
  tx,         \* bytes handed to the most recent port.write
  stdout,     \* lines printed to the console
  stderr,     \* diagnostics written to sys.stderr in the current loop iteration
  logfile,    \* lines of the file named by --log
  line,       \* interactive mode: raw_input('> ').rstrip()
  gi,         \* polling mode: index of the current gauge in gauges
  readings,   \* polling mode: readings of the current cycle
  start,      \* receive(): last byte read while hunting for STX
  attempt,    \* receive(): attempt counter
  size,       \* receive(): the length byte
  data,       \* receive(): the payload read
  ret,        \* what the last receive() returned
  now,        \* the wall clock, in poll intervals
  iter,       \* number of loop iterations started
  ops         \* events at the port in the current loop iteration, in order:
              \* write, timeout (a write that timed out), recv, wire

vars == <<ARGS, gauges, pc, exitcode, raised, ser, rx, tx, stdout, stderr, logfile,
          line, gi, readings, start, attempt, size, data, ret, now, iter, ops>>

sinks == <<stdout, stderr, logfile>>
locals == <<start, attempt, size, data>>
loop == <<line, gi, readings, now, iter>>
conf == <<ARGS, gauges, ser>>

\* the diagnostics, as templates; "<...>" names a value put into the text
SendTimeoutMsg == Format(<<"%s", ": serial timeout sending command: ", "%s">>,
                         <<"<now>", "<cmd>">>)
RecvTimeoutMsg == Format(<<"%s", ": serial timeout while receiving data: ", "%s">>,
                         <<"<now>", "<data>">>)
StxTimeoutMsg == <<"Timeout while waiting for STX\n">>
InvalidMsg == <<"Invalid message: ", "<data>", "\n">>

ConsoleLine(kind, text) == [kind |-> kind, text |-> text]

\* the argument of the current send() call
SendArg == IF ARGS.interactive THEN line ELSE <<ChrS, Chr0>> \o gauges[gi]

\* port.read(n): n bytes, or what arrived before the timeout
PortRead(n) == SubSeq(rx, 1, Min(n, Len(rx)))
PortRest(n) == SubSeq(rx, Min(n, Len(rx)) + 1, Len(rx))

\* the process ends: its memory is released, the port is closed with it
Terminate(code, e) ==
  /\ pc' = "exit"
  /\ exitcode' = code
  /\ raised' = e
  /\ rx' = << >>
  /\ line' = << >>
  /\ gi' = 0
  /\ readings' = << >>
  /\ start' = None
  /\ attempt' = 0
  /\ size' = 0
  /\ data' = << >>
  /\ ret' = None

\* sys.exit(code)
Exit(code) == Terminate(code, "")

\* an exception nobody catches: traceback, exit status 1
Uncaught(e) == Terminate(1, e)

Goto(p) == /\ pc' = p
           /\ UNCHANGED <<exitcode, raised>>

NoLocals == /\ start = None
            /\ attempt = 0
            /\ size = 0
            /\ data = << >>

InitWith(args, file) ==
  /\ ARGS = args
  /\ gauges = << >>
  /\ pc = "check"
  /\ exitcode = -1
  /\ raised = ""
  /\ ser = "closed"
  /\ rx = << >>
  /\ tx = << >>
  /\ stdout = << >>
  /\ stderr = << >>
  /\ logfile = file
  /\ line = << >>
  /\ gi = 0
  /\ readings = << >>
  /\ NoLocals
  /\ ret = None
  /\ now = 0
  /\ iter = 0
  /\ ops = << >>

\* a line some earlier run left in the log file
OldLine == ConsoleLine("old", << >>)
LogFiles == {<< >>, <<OldLine>>}

\* the defaults of the option table
DefaultGauges == <<Chr0, Comma, Chr0 + 1>>
Defaults == [gauges |-> DefaultGauges, interactive |-> FALSE, oneshot |-> FALSE,
             log |-> "STDOUT"]

\* --gauges arguments of the explored runs: 0,1  1  +1  0,15  x
GaugeArgs == {DefaultGauges, <<Chr0 + 1>>, <<ChrPlus, Chr0 + 1>>,
              <<Chr0, Comma, Chr0 + 1, Chr0 + 5>>, <<120>>}
TypedLines == SeqsUpTo(LineChars, MaxLineLen)

\* the explored runs: polling the console with each --gauges argument,
\* polling into a log file, and one interactive run; with and without
\* --oneshot, the other options at their defaults
Init ==
  \/ \E g \in GaugeArgs, o \in BOOLEAN :
       InitWith([Defaults EXCEPT !.gauges = g, !.oneshot = o], << >>)
  \/ \E f \in LogFiles, o \in BOOLEAN :
       InitWith([Defaults EXCEPT !.oneshot = o, !.log = "FILE"], f)
  \/ InitWith([Defaults EXCEPT !.interactive = TRUE], << >>)

-----------------------------------------------------------------------------
(***************************************************************************)
(* Startup.                                                                *)
(***************************************************************************)

\* lines 141-151: the gauge sanity check
SanityCheck ==
  /\ pc = "check"
  /\ gauges' = Split(ARGS.gauges)
  /\ LET bad == FirstBadGauge(gauges')
     IN  IF bad = 0
         THEN /\ Goto("log")
              /\ UNCHANGED <<stdout, rx, locals, ret, line, gi, readings>>
         ELSE /\ stdout' = Append(stdout,
                   ConsoleLine(IF IntOk(gauges'[bad]) THEN "invalid-range" ELSE "invalid",
                               gauges'[bad]))
              /\ Exit(1)
  /\ UNCHANGED <<ARGS, ser, tx, stderr, logfile, now, iter, ops>>

\* a log selection that writes the header whatever the file holds
LogSelectAlwaysHeader ==
  /\ pc = "log"
  /\ stdout' = Append(stdout, ConsoleLine("header", ARGS.gauges))
  /\ logfile' = IF ARGS.log # "STDOUT"
                THEN Append(logfile, ConsoleLine("header", ARGS.gauges))
                ELSE logfile
  /\ Goto("open")
  /\ UNCHANGED <<conf, rx, tx, stderr, locals, ret, loop, ops>>

\* lines 153-161: header to the console, then the log is chosen
LogSelect ==
  /\ pc = "log"
  /\ stdout' = Append(stdout, ConsoleLine("header", ARGS.gauges))
  /\ logfile' = IF ARGS.log # "STDOUT" /\ Len(logfile) = 0
                THEN Append(logfile, ConsoleLine("header", ARGS.gauges))
                ELSE logfile
  /\ Goto("open")
  /\ UNCHANGED <<conf, rx, tx, stderr, locals, ret, loop, ops>>

\* lines 163-174: the port is opened, or serial.Serial raises
OpenPort(ok) ==
  /\ pc = "open"
  /\ IF ok
     THEN /\ ser' = "open"
          /\ Goto("loop")
          /\ UNCHANGED <<rx, locals, ret, line, gi, readings>>
     ELSE /\ ser' = ser
          /\ Uncaught("SerialException")
  /\ UNCHANGED <<ARGS, gauges, tx, sinks, now, iter, ops>>

(***************************************************************************)
(* The main loop.                                                          *)
(***************************************************************************)

\* lines 177-179, 184-185: top of `while True`
LoopTop ==
  /\ pc = "loop"
  /\ iter < MaxIter
  /\ iter' = iter + 1
  /\ ops' = << >>
  /\ stderr' = << >>
  /\ IF ARGS.interactive
     THEN Goto("prompt") /\ UNCHANGED <<readings, gi>>
     ELSE Goto("send") /\ readings' = << >> /\ gi' = 1
  /\ UNCHANGED <<conf, rx, tx, stdout, logfile, locals, ret, line, now>>

\* line 180: raw_input('> ').rstrip()
Prompt(typed) ==
  /\ pc = "prompt"
  /\ line' = RStrip(typed)
  /\ Goto("send")
  /\ UNCHANGED <<conf, rx, tx, sinks, locals, ret, gi, readings, now, iter, ops>>

\* receive() is entered: lines 76-77
EnterReceive ==
  /\ start' = None
  /\ attempt' = 1
  /\ Goto("hunt")
  /\ UNCHANGED <<size, data, ret, line, gi, readings>>

\* a send() that masks the length to one byte: chr(len(cmd) & 255)
SendOkWrapsLength ==
  /\ pc = "send"
  /\ tx' = <<STX, Len(SendArg) % (MaxChr + 1)>> \o SendArg \o checksum(SendArg)
  /\ ops' = Append(ops, [op |-> "write", cmd |-> SendArg])
  /\ EnterReceive
  /\ UNCHANGED <<conf, sinks, now, iter>>

\* lines 67-70: send() whose write succeeds; control passes to receive().
\* What the write does to the input buffer is the device's part.
SendOk ==
  /\ pc = "send"
  /\ IF Len(SendArg) > MaxChr
     THEN Uncaught("ValueError") /\ UNCHANGED <<tx, ops>>
     ELSE /\ tx' = Frame(SendArg)
          /\ ops' = Append(ops, [op |-> "write", cmd |-> SendArg])
          /\ EnterReceive
  /\ UNCHANGED <<conf, sinks, now, iter>>

\* a send() without its except clause
SendTimeoutUncaught ==
  /\ pc = "send"
  /\ Len(SendArg) <= MaxChr
  /\ tx' = Frame(SendArg)
  /\ ops' = Append(ops, [op |-> "timeout", cmd |-> SendArg])
  /\ Uncaught("SerialTimeoutException")
  /\ UNCHANGED <<conf, sinks, now, iter>>

\* lines 67-72: send() whose write raises SerialTimeoutException
SendTimeout ==
  /\ pc = "send"
  /\ Len(SendArg) <= MaxChr
  /\ tx' = Frame(SendArg)
  /\ stderr' = Append(stderr, SendTimeoutMsg)
  /\ ops' = Append(ops, [op |-> "timeout", cmd |-> SendArg])
  /\ EnterReceive
  /\ UNCHANGED <<conf, rx, stdout, logfile, now, iter>>

\* one port.read(n) call of receive()
Consume(n) == rx' = PortRest(n)

\* receive() returns r to its caller; its locals are gone
Return(r) == /\ ret' = r
             /\ ops' = Append(ops, [op |-> "recv", cmd |-> << >>])
             /\ start' = None
             /\ attempt' = 0
             /\ size' = 0
             /\ data' = << >>
             /\ Goto("ret")

\* a hunt that compares with >= and gives up one read early
HuntGivesUpEarly ==
  /\ pc = "hunt"
  /\ Consume(1)
  /\ IF PortRead(1) # <<STX>> /\ attempt >= Retries
     THEN /\ stderr' = Append(stderr, StxTimeoutMsg)
          /\ Return(Str(<< >>))
     ELSE /\ start' = Str(PortRead(1))
          /\ attempt' = attempt + 1
          /\ Goto(IF PortRead(1) = <<STX>> THEN "size" ELSE "hunt")
          /\ UNCHANGED <<stderr, ret, ops, size, data>>
  /\ UNCHANGED <<conf, tx, stdout, logfile, loop>>

\* a hunt that allows one read too many
HuntGivesUpLate ==
  /\ pc = "hunt"
  /\ Consume(1)
  /\ IF PortRead(1) # <<STX>> /\ attempt > Retries + 1
     THEN /\ stderr' = Append(stderr, StxTimeoutMsg)
          /\ Return(Str(<< >>))
     ELSE /\ start' = Str(PortRead(1))
          /\ attempt' = attempt + 1
          /\ Goto(IF PortRead(1) = <<STX>> THEN "size" ELSE "hunt")
          /\ UNCHANGED <<stderr, ret, ops, size, data>>
  /\ UNCHANGED <<conf, tx, stdout, logfile, loop>>

\* lines 79-86: one pass of the hunt for STX
Hunt ==
  /\ pc = "hunt"
  /\ Consume(1)
  /\ IF PortRead(1) # <<STX>> /\ attempt > Retries
     THEN /\ stderr' = Append(stderr, StxTimeoutMsg)
          /\ Return(Str(<< >>))
     ELSE /\ start' = Str(PortRead(1))
          /\ attempt' = attempt + 1
          /\ Goto(IF PortRead(1) = <<STX>> THEN "size" ELSE "hunt")
          /\ UNCHANGED <<stderr, ret, ops, size, data>>
  /\ UNCHANGED <<conf, tx, stdout, logfile, loop>>

\* line 89: size = ord(port.read(1))
ReadSize ==
  /\ pc = "size"
  /\ IF PortRead(1) = << >>
     THEN Uncaught("TypeError")
     ELSE /\ Consume(1)
          /\ size' = PortRead(1)[1]
          /\ Goto("data")
          /\ UNCHANGED <<start, attempt, data, ret, line, gi, readings>>
  /\ UNCHANGED <<conf, tx, sinks, now, iter, ops>>

\* a payload read without the length test
ReadDataIgnoresLength ==
  /\ pc = "data"
  /\ Consume(size)
  /\ data' = PortRead(size)
  /\ Goto("chk")
  /\ UNCHANGED <<stderr, ret, ops, start, attempt, size>>
  /\ UNCHANGED <<conf, tx, stdout, logfile, loop>>

\* lines 92-96: the payload
ReadData ==
  /\ pc = "data"
  /\ Consume(size)
  /\ IF Len(PortRead(size)) # size
     THEN /\ stderr' = Append(stderr, RecvTimeoutMsg)
          /\ Return(Str(<< >>))
     ELSE /\ data' = PortRead(size)
          /\ Goto("chk")
          /\ UNCHANGED <<stderr, ret, ops, start, attempt, size>>
  /\ UNCHANGED <<conf, tx, stdout, logfile, loop>>

\* lines 99-104: the checksum byte
ReadChk ==
  /\ pc = "chk"
  /\ Consume(1)
  /\ IF PortRead(1) = checksum(data)
     THEN Return(Str(data)) /\ UNCHANGED stderr
     ELSE /\ stderr' = Append(stderr, InvalidMsg)
          /\ Return(None)
  /\ UNCHANGED <<conf, tx, stdout, logfile, loop>>

\* line 181: print receive(ser)
Echo ==
  /\ pc = "ret"
  /\ ARGS.interactive
  /\ stdout' = Append(stdout, ConsoleLine("echo", StrOf(ret)))
  /\ ret' = None
  /\ Goto("loop")
  /\ UNCHANGED <<conf, rx, tx, stderr, logfile, locals, loop, ops>>

\* an extraction that puts the newest reading first
ExtractPrepends ==
  /\ pc = "ret"
  /\ ~ARGS.interactive
  /\ IF ret.none
     THEN Uncaught("TypeError")
     ELSE /\ readings' = <<Reading(ret.val)>> \o readings
          /\ ret' = None
          /\ IF gi < Len(gauges)
             THEN gi' = gi + 1 /\ Goto("send")
             ELSE gi' = gi /\ Goto("write")
          /\ UNCHANGED <<rx, locals, line>>
  /\ UNCHANGED <<conf, tx, sinks, now, iter, ops>>

\* lines 187-191: the reading is extracted and appended; next gauge
Extract ==
  /\ pc = "ret"
  /\ ~ARGS.interactive
  /\ IF ret.none
     THEN Uncaught("TypeError")
     ELSE /\ readings' = Append(readings, Reading(ret.val))
          /\ ret' = None
          /\ IF gi < Len(gauges)
             THEN gi' = gi + 1 /\ Goto("send")
             ELSE gi' = gi /\ Goto("write")
          /\ UNCHANGED <<rx, locals, line>>
  /\ UNCHANGED <<conf, tx, sinks, now, iter, ops>>

\* lines 193-198: the record is printed and written to the log
Msg == Join(<<TimeStr(now)>> \o readings)
WriteRecord ==
  /\ pc = "write"
  /\ IF ARGS.log = "STDOUT"
     THEN /\ stdout' = stdout \o <<ConsoleLine("data", Msg), ConsoleLine("data", Msg)>>
          /\ UNCHANGED logfile
     ELSE /\ stdout' = Append(stdout, ConsoleLine("data", Msg))
          /\ logfile' = Append(logfile, ConsoleLine("data", Msg))
  /\ IF ARGS.oneshot
     THEN Exit(0)
     ELSE Goto("sleep") /\ UNCHANGED <<rx, locals, ret, line, gi, readings>>
  /\ UNCHANGED <<conf, tx, stderr, now, iter, ops>>

\* line 200: sleep(ARGS.poll)
Sleep ==
  /\ pc = "sleep"
  /\ now' = now + 1
  /\ Goto("loop")
  /\ UNCHANGED <<conf, rx, tx, sinks, locals, ret, line, gi, readings, iter, ops>>

\* lines 202-204: KeyboardInterrupt while the process waits, EOFError at the prompt
Waiting == {"prompt", "send", "hunt", "size", "data", "chk", "sleep"}

\* an interrupt handler that flushes the readings collected so far to the log
InterruptWritesPartial ==
  /\ pc \in Waiting
  /\ IF ARGS.log = "STDOUT"
     THEN /\ stdout' = stdout \o <<ConsoleLine("data", Join(<<TimeStr(now)>> \o readings)),
                                   ConsoleLine("blank", << >>)>>
          /\ UNCHANGED logfile
     ELSE /\ stdout' = Append(stdout, ConsoleLine("blank", << >>))
          /\ logfile' = Append(logfile,
                               ConsoleLine("data", Join(<<TimeStr(now)>> \o readings)))
  /\ Exit(0)
  /\ UNCHANGED <<conf, tx, stderr, now, iter, ops>>

Interrupt ==
  /\ pc \in Waiting
  /\ stdout' = Append(stdout, ConsoleLine("blank", << >>))
  /\ Exit(0)
  /\ UNCHANGED <<conf, tx, stderr, logfile, now, iter, ops>>

(***************************************************************************)
(* The device and the line.                                                *)
(***************************************************************************)

\* bytes the pending read still waits for
Wanted == IF pc = "data" THEN size ELSE 1

\* a byte arrives while a read is waiting for it
Arrive(b) ==
  /\ pc \in {"hunt", "size", "data", "chk"}
  /\ Len(rx) < Wanted
  /\ Len(rx) < MaxRx
  /\ rx' = Append(rx, b)
  /\ UNCHANGED <<conf, pc, exitcode, raised, tx, sinks, locals, ret, loop, ops>>

Next ==
  \/ SanityCheck
  \/ LogSelect
  \/ \E ok \in BOOLEAN : OpenPort(ok)
  \/ LoopTop
  \/ \E typed \in TypedLines : Prompt(typed)
  \/ SendOk /\ UNCHANGED rx
  \/ SendTimeout
  \/ Hunt
  \/ ReadSize
  \/ ReadData
  \/ ReadChk
  \/ Echo
  \/ Extract
  \/ WriteRecord
  \/ Sleep
  \/ Interrupt
  \/ \E b \in RxBytes : Arrive(b)

Spec == Init /\ [][Next]_vars

(***************************************************************************)
(* Startup alone, for every --gauges argument up to MaxGaugeArgLen.        *)
(***************************************************************************)
StartupArgs == SeqsUpTo(GaugeChars, MaxGaugeArgLen)

InitStartup ==
  \E g \in StartupArgs :
    \/ InitWith([Defaults EXCEPT !.gauges = g], << >>)
    \/ \E f \in LogFiles : InitWith([Defaults EXCEPT !.gauges = g, !.log = "FILE"], f)

NextStartup ==
  \/ SanityCheck
  \/ LogSelect
  \/ \E ok \in BOOLEAN : OpenPort(ok)

SpecStartup == InitStartup /\ [][NextStartup]_vars

(***************************************************************************)
(* One interactive exchange through a loopback plug: what send() writes    *)
(* comes back on the input, after stray bytes and before the next byte on  *)
(* the line.                                                               *)
(***************************************************************************)
Commands == SeqsUpTo(CmdBytes, MaxCmdLen)
Garbage == SeqsUpTo(GarbageBytes, MaxGarbage)
Trailer == <<STX>>

\* the interactive run at its first prompt
InitLoopback ==
  /\ ARGS = [Defaults EXCEPT !.interactive = TRUE]
  /\ gauges = Split(DefaultGauges)
  /\ pc = "prompt"
  /\ exitcode = -1
  /\ raised = ""
  /\ ser = "open"
  /\ rx = << >>
  /\ tx = << >>
  /\ stdout = <<ConsoleLine("header", DefaultGauges)>>
  /\ stderr = << >>
  /\ logfile = << >>
  /\ line = << >>
  /\ gi = 0
  /\ readings = << >>
  /\ NoLocals
  /\ ret = None
  /\ now = 0
  /\ iter = 1
  /\ ops = << >>

\* the plug delivers the written frame before the first read
Loopback(g) ==
  /\ pc = "hunt"
  /\ attempt = 1
  /\ rx = << >>
  /\ ops[Len(ops)].op = "write"
  /\ rx' = g \o tx \o Trailer
  /\ ops' = Append(ops, [op |-> "wire", cmd |-> g])
  /\ UNCHANGED <<conf, pc, exitcode, raised, tx, sinks, locals, ret, loop>>

NextLoopback ==
  \/ \E typed \in Commands : Prompt(typed)
  \/ SendOk /\ UNCHANGED rx
  \/ \E g \in Garbage : Loopback(g)
  \/ Hunt
  \/ ReadSize
  \/ ReadData
  \/ ReadChk
  \/ Echo

SpecLoopback == InitLoopback /\ [][NextLoopback]_vars

(***************************************************************************)
(* The interactive run alone, from the top of its loop, where the lines    *)
(* typed include lines of 255 and of 256 characters.                       *)
(***************************************************************************)
LongLines == {[i \in 1..n |-> ChrS] : n \in {MaxChr, MaxChr + 1}}
InteractiveLines == TypedLines \cup LongLines

InitInteractive ==
  /\ ARGS = [Defaults EXCEPT !.interactive = TRUE]
  /\ gauges = Split(DefaultGauges)
  /\ pc = "loop"
  /\ exitcode = -1
  /\ raised = ""
  /\ ser = "open"
  /\ rx = << >>
  /\ tx = << >>
  /\ stdout = <<ConsoleLine("header", DefaultGauges)>>
  /\ stderr = << >>
  /\ logfile = << >>
  /\ line = << >>
  /\ gi = 0
  /\ readings = << >>
  /\ NoLocals
  /\ ret = None
  /\ now = 0
  /\ iter = 0
  /\ ops = << >>

NextInteractive ==
  \/ LoopTop
  \/ \E typed \in InteractiveLines : Prompt(typed)
  \/ SendOk /\ UNCHANGED rx
  \/ SendTimeout
  \/ Hunt
  \/ ReadSize
  \/ ReadData
  \/ ReadChk
  \/ Echo
  \/ Interrupt
  \/ \E b \in RxBytes : Arrive(b)

SpecInteractive == InitInteractive /\ [][NextInteractive]_vars

(***************************************************************************)
(* The polling run of gauges 0 and 1 with a device on the line: the device *)
(* answers each command it was sent, in order, with the frame of that      *)
(* gauge's reading, at once or late, or not at all.                        *)
(***************************************************************************)
\* what the device reports for gauge g: a hyphen and the gauge's own digit
DeviceReading(g) == <<Hyphen>> \o g

WritesIn(o) == Cardinality({j \in 1..Len(o) : o[j].op = "write"})
WiresIn(o) == Cardinality({j \in 1..Len(o) : o[j].op = "wire"})
\* the k-th command written in this cycle
NthWrite(o, k) ==
  o[CHOOSE j \in 1..Len(o) : o[j].op = "write" /\ WritesIn(SubSeq(o, 1, j)) = k].cmd

InitDevice ==
  /\ ARGS = Defaults
  /\ gauges = Split(DefaultGauges)
  /\ pc = "loop"
  /\ exitcode = -1
  /\ raised = ""
  /\ ser = "open"
  /\ rx = << >>
  /\ tx = << >>
  /\ stdout = <<ConsoleLine("header", DefaultGauges)>>
  /\ stderr = << >>
  /\ logfile = << >>
  /\ line = << >>
  /\ gi = 0
  /\ readings = << >>
  /\ NoLocals
  /\ ret = None
  /\ now = 0
  /\ iter = 0
  /\ ops = << >>

\* the device answers the oldest command it has not answered yet
DeviceReply ==
  /\ pc # "exit"
  /\ WiresIn(ops) < WritesIn(ops)
  /\ LET cmd == NthWrite(ops, WiresIn(ops) + 1)
     IN  /\ rx' = rx \o Frame(DeviceReading(SubSeq(cmd, 3, Len(cmd))))
         /\ ops' = Append(ops, [op |-> "wire", cmd |-> cmd])
  /\ UNCHANGED <<conf, pc, exitcode, raised, tx, sinks, locals, ret, loop>>

NextDevice ==
  \/ LoopTop
  \/ SendOk /\ UNCHANGED rx
  \/ DeviceReply
  \/ Hunt
  \/ ReadSize
  \/ ReadData
  \/ ReadChk
  \/ Extract
  \/ WriteRecord
  \/ Sleep

SpecDevice == InitDevice /\ [][NextDevice]_vars

(***************************************************************************)
(* The reading extraction alone: a polling run of one gauge at the return  *)
(* of its receive(), for every payload up to MaxPayloadLen.                *)
(***************************************************************************)
Payloads == SeqsUpTo(PayloadChars, MaxPayloadLen)

InitExtract ==
  \E p \in Payloads :
    /\ ARGS = [Defaults EXCEPT !.gauges = <<Chr0 + 1>>]
    /\ gauges = Split(<<Chr0 + 1>>)
    /\ pc = "ret"
    /\ exitcode = -1
    /\ raised = ""
    /\ ser = "open"
    /\ rx = << >>
    /\ tx = Frame(<<ChrS, Chr0, Chr0 + 1>>)
    /\ stdout = <<ConsoleLine("header", <<Chr0 + 1>>)>>
    /\ stderr = << >>
    /\ logfile = << >>
    /\ line = << >>
    /\ gi = 1
    /\ readings = << >>
    /\ NoLocals
    /\ ret = Str(p)
    /\ now = 0
    /\ iter = 1
    /\ ops = <<[op |-> "write", cmd |-> <<ChrS, Chr0, Chr0 + 1>>],
               [op |-> "recv", cmd |-> << >>]>>

NextExtract ==
  \/ Extract
  \/ WriteRecord

SpecExtract == InitExtract /\ [][NextExtract]_vars

\* the plug has delivered; the stray bytes it put before the frame
Delivered == Len(ops) >= 2 /\ ops[2].op = "wire"
Stray == ops[2].cmd

TypeOK ==
  /\ pc \in {"check", "log", "open", "loop", "prompt", "send", "hunt", "size",
             "data", "chk", "ret", "write", "sleep", "exit"}
  /\ exitcode \in {-1, 0, 1}
  /\ (pc = "exit") = (exitcode # -1)
  /\ \A i \in 1..Len(rx) : rx[i] \in 0..MaxChr

-----------------------------------------------------------------------------
(***************************************************************************)
(* Properties.                                                             *)
(***************************************************************************)
RecvPcs == {"hunt", "size", "data", "chk"}
LastDiag == IF stderr = << >> THEN << >> ELSE stderr[Len(stderr)]

\* a step of receive() at position p: neither an arriving byte nor an interrupt
ReadStep(p) == /\ pc = p
               /\ Len(rx') <= Len(rx)
               /\ ~(pc' = "exit" /\ exitcode' = 0)

\* C1: in polling mode, after a reply whose checksum byte is wrong, the
\* cycle goes on with an empty field for that gauge and the process does
\* not abort.
C1_BadChecksumGivesEmptyField ==
  [][(~ARGS.interactive /\ pc = "ret" /\ LastDiag = InvalidMsg)
       => (raised' = "" /\ readings' = Append(readings, << >>))]_vars

\* C2: whatever the serial stream does, receive() returns to its caller and
\* raises no error that ends the process: the process leaves receive() for
\* its exit only when it is interrupted.
C2_ReceiveNeverRaises ==
  [][(pc \in RecvPcs /\ pc' = "exit") => raised' = ""]_vars

\* C3 as stated: after any number of stray non-STX bytes followed by a
\* valid frame, one receive() returns the payload and has consumed exactly
\* the stray bytes and the frame.
C3_AnyGarbageThenFrame ==
  (pc = "ret" /\ Delivered) => (ret = Str(line) /\ rx = Trailer)

\* C3 as amended: after at most `retries` (5) stray non-STX bytes followed
\* by a valid frame, one receive() returns the payload and has consumed
\* exactly the stray bytes and the frame.
C3_GarbageUpToRetriesThenFrame ==
  (pc = "ret" /\ Delivered /\ Len(Stray) <= Retries)
    => (ret = Str(line) /\ rx = Trailer)

C3_Witness ==
  /\ pc = "ret"
  /\ Delivered
  /\ Len(Stray) = Retries
  /\ line # << >>
  /\ ret = Str(line)
  /\ rx = Trailer

\* C4: every one-byte read of the hunt that does not return STX is one
\* attempt; the hunt goes on only while the attempts are at most `retries`,
\* gives up at read retries+1 with the sync-timeout diagnostic and the
\* empty result, and after the hunt receive() does at most the length,
\* payload and checksum reads.
C4_HuntIsBounded ==
  [][/\ ReadStep("hunt") =>
          /\ attempt \in 1..(Retries + 1)
          /\ pc' \in {"hunt", "size", "ret"}
          /\ (pc' = "hunt") =>
               (PortRead(1) # <<STX>> /\ attempt <= Retries /\ attempt' = attempt + 1)
          /\ (pc' = "size") => PortRead(1) = <<STX>>
          /\ (pc' = "ret") =>
               /\ PortRead(1) # <<STX>>
               /\ attempt = Retries + 1
               /\ ret' = Str(<< >>)
               /\ stderr' = Append(stderr, StxTimeoutMsg)
     /\ ReadStep("size") => pc' \in {"data", "exit"}
     /\ ReadStep("data") => pc' \in {"chk", "ret"}
     /\ ReadStep("chk") => pc' = "ret"]_vars

C4_Witness == pc = "ret" /\ LastDiag = StxTimeoutMsg /\ ret = Str(<< >>)

\* C5: when what send(command) wrote comes back unchanged, with nothing
\* before it, receive() succeeds and returns the command.
C5_RoundTrip ==
  (pc = "ret" /\ Delivered /\ Stray = << >>) => (ret = Str(line) /\ stderr = << >>)

C5_Witness ==
  /\ pc = "ret"
  /\ Delivered
  /\ Stray = << >>
  /\ Len(line) = 2
  /\ SumBytes(line) > MaxChr
  /\ ret = Str(line)

\* C6: when the checksum byte read differs from the sum of the payload
\* bytes mod 256 (a read that timed out included), receive() does not
\* return the payload.
C6_NoFalseOk ==
  [][(ReadStep("chk") /\ PortRead(1) # << SumBytes(data) % (MaxChr + 1) >>)
       => (pc' = "ret" /\ ret' # Str(data))]_vars

C6_Witness == pc = "ret" /\ ret.none /\ LastDiag = InvalidMsg

\* C7: when the payload read returns fewer bytes than the length byte
\* announced, receive() writes the length-mismatch diagnostic, returns the
\* empty result and reads no checksum byte.
C7_ShortPayload ==
  [][(ReadStep("data") /\ Len(rx) < size)
       => /\ pc' = "ret"
          /\ ret' = Str(<< >>)
          /\ stderr' = Append(stderr, RecvTimeoutMsg)
          /\ rx' = << >>]_vars

C7_Witness == pc = "ret" /\ LastDiag = RecvTimeoutMsg /\ ret = Str(<< >>)

\* C8: a write that times out is caught by send(): the diagnostic is
\* written, the process lives on with the port open and enters the
\* receive() that follows, nothing else of the loop having changed.
C8_SendTimeoutIsCaught ==
  [][(pc = "send" /\ ops' = Append(ops, [op |-> "timeout", cmd |-> SendArg]))
       => /\ pc' = "hunt"
          /\ exitcode' = -1
          /\ raised' = ""
          /\ ser = "open"
          /\ stderr' = Append(stderr, SendTimeoutMsg)
          /\ UNCHANGED <<ser, rx, gi, readings, line, iter, stdout, logfile>>]_vars

\* a later send and receive done in the same cycle after a write timed out
C8_Witness ==
  /\ pc = "ret"
  /\ Len(ops) = 4
  /\ ops[1].op = "timeout"
  /\ ops[2].op = "recv"
  /\ ops[3].op = "write"
  /\ ops[4].op = "recv"

\* C9: when some element of the gauge list is not an integer in 0..9, the
\* process stops in the sanity check with a non-zero exit status: the port
\* is never opened and no CSV header or data line reaches the console or
\* the log file.
IsCsv(l) == l.kind \in {"header", "data"}
C9_InvalidGaugeIsFatalFirst ==
  (\E i \in 1..Len(Split(ARGS.gauges)) :
      LET g == Split(ARGS.gauges)[i]
      IN  ~(IntOk(g) /\ IntValue(g) >= 0 /\ IntValue(g) <= 9))
    => /\ pc \in {"check", "exit"}
       /\ pc = "exit" => exitcode = 1
       /\ ser = "closed"
       /\ \A i \in 1..Len(stdout) : ~IsCsv(stdout[i])
       /\ \A i \in 1..Len(logfile) : ~IsCsv(logfile[i])

C9_Witness ==
  /\ pc = "exit"
  /\ exitcode = 1
  /\ Len(gauges) = 2
  /\ GaugeOk(gauges[1])
  /\ ~GaugeOk(gauges[2])
  /\ ARGS.log = "FILE"

\* C10: in polling mode the port operations of a cycle are, for each gauge
\* in input order, one send of "S0"+gauge and then one receive, strictly
\* alternating; the k-th reading is the one extracted from the k-th
\* receive, and the record written is the timestamp followed by exactly one
\* reading per gauge in that order.
PollCmd(k) == <<ChrS, Chr0>> \o gauges[k]
C10_CycleShape ==
  ~ARGS.interactive =>
    /\ Len(ops) <= 2 * Len(gauges)
    /\ \A j \in 1..Len(ops) :
         IF j % 2 = 1
         THEN ops[j].op \in {"write", "timeout"} /\ ops[j].cmd = PollCmd((j + 1) \div 2)
         ELSE ops[j].op = "recv"
    /\ pc \in {"write", "sleep"} =>
         (Len(ops) = 2 * Len(gauges) /\ Len(readings) = Len(gauges))
C10_CycleStep ==
  ~ARGS.interactive =>
    /\ (pc = "ret" /\ pc' \in {"send", "write"}) =>
         /\ readings' = Append(readings, Reading(ret.val))
         /\ Len(readings') = Len(ops) \div 2
    /\ (pc = "write" /\ pc' # "write") =>
         /\ Len(readings) = Len(gauges)
         /\ stdout'[Len(stdout')] =
              ConsoleLine("data", Join(<<TimeStr(now)>> \o readings))
C10_PollCycleOrder == []C10_CycleShape /\ [][C10_CycleStep]_vars

C10_Witness ==
  /\ pc = "sleep"
  /\ Len(gauges) = 2
  /\ readings[1] # << >>
  /\ readings[2] = << >>

\* C14 as stated: the reading is the leading numeric-exponent substring of
\* the payload, a run of digits and decimal points, a hyphen, then digits,
\* trailing text discarded; without such a prefix the reading is empty and
\* the run goes on.
NumExpEnds(s) ==
  {j \in 2..Len(s) :
     \E h \in 1..(j - 1) :
       /\ \A i \in 1..(h - 1) : IsDigit(s[i]) \/ s[i] = 46
       /\ s[h] = Hyphen
       /\ \A i \in (h + 1)..j : IsDigit(s[i])
       /\ (j = Len(s) \/ ~IsDigit(s[j + 1]))}
NumExpPrefix(s) ==
  IF NumExpEnds(s) = {} THEN << >> ELSE SubSeq(s, 1, CHOOSE j \in NumExpEnds(s) : TRUE)
C14_LeadingNumericOnly ==
  [][(~ARGS.interactive /\ pc = "ret" /\ ~ret.none)
       => (raised' = "" /\ readings' = Append(readings, NumExpPrefix(ret.val)))]_vars

\* C14 as amended: the reading is the prefix of the payload's first line
\* that ends with the digits after the last hyphen that has a digit behind
\* it; what precedes that hyphen is kept whatever it is, what follows the
\* digits is discarded; when the first line has no hyphen followed by a
\* digit the reading is empty and the run goes on.
InLine(s, k) == \A m \in 1..k : s[m] # Newline
HyphenDigit(s, i) == s[i] = Hyphen /\ IsDigit(s[i + 1]) /\ InLine(s, i + 1)
IsReadingOf(r, s) ==
  /\ Len(r) <= Len(s)
  /\ r = SubSeq(s, 1, Len(r))
  /\ \A i \in (Len(r) + 1)..(Len(s) - 1) : ~HyphenDigit(s, i)
  /\ r # << >> =>
       /\ InLine(r, Len(r))
       /\ \E h \in 1..(Len(r) - 1) :
            r[h] = Hyphen /\ \A i \in (h + 1)..Len(r) : IsDigit(r[i])
       /\ (Len(r) = Len(s) \/ ~IsDigit(s[Len(r) + 1]))
  /\ r = << >> => \A i \in 1..(Len(s) - 1) : ~HyphenDigit(s, i)
C14_PrefixThroughLastHyphenDigits ==
  [][(~ARGS.interactive /\ pc = "ret" /\ ~ret.none)
       => /\ raised' = ""
          /\ Len(readings') = Len(readings) + 1
          /\ SubSeq(readings', 1, Len(readings)) = readings
          /\ IsReadingOf(readings'[Len(readings')], ret.val)]_vars

\* the reading 'E-1' has been recorded and written
C14_Witness ==
  /\ pc = "sleep"
  /\ readings = << <<69, Hyphen, Chr0 + 1>> >>

\* C11: each completed poll cycle adds exactly one data line to the output
\* sink, console or log file; with --oneshot the process then exits with
\* status 0 after its first cycle, without sleeping.
SinkOf(out, file) == IF ARGS.log = "STDOUT" THEN out ELSE file
DataLines(q) == Cardinality({i \in 1..Len(q) : q[i].kind = "data"})
C11_OneDataLinePerCycle ==
  [][(pc = "write" /\ pc' # "write")
       => /\ DataLines(SinkOf(stdout', logfile')) = DataLines(SinkOf(stdout, logfile)) + 1
          /\ ARGS.oneshot => (pc' = "exit" /\ exitcode' = 0 /\ iter = 1)
          /\ ~ARGS.oneshot => pc' = "sleep"]_vars

\* C12: an interrupt (or end of input) while the process waits at the
\* prompt, in a serial write or read, or in the sleep, ends the process with
\* status 0 and adds no record to the console or the log file; a record
\* reaches the console or the log file only in the write step of a cycle,
\* after the exchanges of all its gauges, and it is the complete record.
C12_InterruptIsClean ==
  [][/\ (pc \in Waiting /\ pc' = "exit" /\ raised' = "")
          => /\ exitcode' = 0
             /\ logfile' = logfile
             /\ DataLines(stdout') = DataLines(stdout)
     /\ (pc # "log" /\ (logfile' # logfile \/ DataLines(stdout') # DataLines(stdout)))
          => /\ pc = "write"
             /\ Len(readings) = Len(gauges)
             /\ Len(ops) = 2 * Len(gauges)
             /\ ops[Len(ops)].op = "recv"
             /\ LET rec == ConsoleLine("data", Join(<<TimeStr(now)>> \o readings))
                IN  /\ stdout'[Len(stdout')] = rec
                    /\ SinkOf(stdout', logfile')[Len(SinkOf(stdout', logfile'))] = rec
                    /\ Len(Split(rec.text)) = Len(gauges) + 1]_vars

\* interrupted in the second exchange of the first cycle: no record anywhere
C12_Witness ==
  /\ pc = "exit"
  /\ exitcode = 0
  /\ ~ARGS.interactive
  /\ iter = 1
  /\ Len(ops) = 3
  /\ stdout[Len(stdout)].kind = "blank"
  /\ DataLines(stdout) = 0
  /\ DataLines(logfile) = 0

\* C13: in interactive mode the typed line, stripped of trailing whitespace,
\* is what is sent, one receive() follows, and the line echoed is the
\* payload received, or the empty line when the exchange failed (sync
\* timeout, length mismatch, checksum mismatch); then the loop goes on.
C13_EchoIsPayloadOrEmpty ==
  [][ARGS.interactive =>
       /\ (pc = "send" /\ pc' = "hunt")
            => /\ line = RStrip(line)
               /\ Len(ops') = 1
               /\ ops'[1].cmd = line
       /\ pc = "ret"
            => /\ Len(ops) = 2
               /\ pc' = "loop"
               /\ stdout' = Append(stdout, ConsoleLine("echo",
                     IF LastDiag \in {StxTimeoutMsg, RecvTimeoutMsg, InvalidMsg}
                     THEN << >> ELSE ret.val))]_vars

\* C19: every command written in polling mode is three bytes, 'S', '0' and
\* one digit.
C19_PollCommandsAreThreeBytes ==
  ~ARGS.interactive =>
    \A j \in 1..Len(ops) :
      ops[j].op \in {"write", "timeout"}
        => /\ Len(ops[j].cmd) = 3
           /\ ops[j].cmd[1] = ChrS
           /\ ops[j].cmd[2] = Chr0
           /\ IsDigit(ops[j].cmd[3])

\* C20: the diagnostic of a write timeout names the time and the command,
\* the diagnostic of a short payload read names the time and the bytes read.
Has(m, w) == \E k \in 1..Len(m) : m[k] = w
C20_DiagnosticsNameTimeAndData ==
  \A i \in 1..Len(stderr) :
    /\ Has(stderr[i], ": serial timeout sending command: ")
         => (Has(stderr[i], "<now>") /\ Has(stderr[i], "<cmd>"))
    /\ Has(stderr[i], ": serial timeout while receiving data: ")
         => (Has(stderr[i], "<now>") /\ Has(stderr[i], "<data>"))

\* C15: send() hands the port, in one write, STX, one byte holding the
\* length of the command, the bytes of the command, and one byte holding
\* the sum of the command's bytes mod 256.
RECURSIVE ByteSum(_, _, _)
ByteSum(c, a, b) ==
  IF a > b THEN 0
  ELSE IF a = b THEN c[a]
  ELSE ByteSum(c, a, (a + b) \div 2) + ByteSum(c, (a + b) \div 2 + 1, b)
C15_FrameWritten ==
  [][(pc = "send" /\ pc' = "hunt")
       => LET c == SendArg
              n == Len(SendArg)
          IN  /\ Len(ops') = Len(ops) + 1
              /\ ops'[Len(ops')].cmd = c
              /\ Len(tx') = n + 3
              /\ tx'[1] = STX
              /\ tx'[2] = n
              /\ SubSeq(tx', 3, n + 2) = c
              /\ tx'[n + 3] = ByteSum(c, 1, n) % (MaxChr + 1)]_vars

\* the command FF FF has been written: its checksum byte is FE
C15_Witness ==
  /\ pc = "hunt"
  /\ line = <<MaxChr, MaxChr>>
  /\ tx = <<STX, 2, MaxChr, MaxChr, MaxChr - 1>>

\* C16: send() of a command longer than 255 bytes fails with an error and
\* hands no byte to the port.
C16_LongCommandFails ==
  [][(pc = "send" /\ Len(SendArg) > MaxChr)
       => /\ tx' = tx
          /\ ops' = ops
          /\ pc' = "exit"
          /\ (exitcode' = 0 \/ (exitcode' = 1 /\ raised' = "ValueError"))]_vars

\* a line of 256 characters was typed and send() has failed on it
C16_Witness ==
  /\ pc = "exit"
  /\ ARGS.interactive
  /\ raised = "ValueError"
  /\ iter = 1
  /\ tx = << >>
  /\ ops = << >>

\* C17: the header goes into a log file only when the file is empty when
\* it is opened; a file that has content gets no header, and what a log
\* file holds is never changed, only appended to.
Headers(q) == Cardinality({i \in 1..Len(q) : q[i].kind = "header"})
C17_HeaderOnlyIntoEmptyLog ==
  [][/\ Len(logfile') >= Len(logfile)
     /\ SubSeq(logfile', 1, Len(logfile)) = logfile
     /\ (pc = "log" /\ ARGS.log # "STDOUT")
          => logfile' = IF logfile = << >>
                        THEN <<ConsoleLine("header", ARGS.gauges)>>
                        ELSE logfile
     /\ Headers(logfile') # Headers(logfile)
          => (pc = "log" /\ ARGS.log # "STDOUT" /\ logfile = << >>)]_vars

\* a log file that had a line: the run is past the log selection and has
\* appended a record behind that line, with no header
C17_Witness ==
  /\ ARGS.log # "STDOUT"
  /\ Len(logfile) = 2
  /\ logfile[1] = OldLine
  /\ logfile[2].kind = "data"

\* C18: a non-empty reading recorded at the position of gauge i is the one
\* the device sent in reply to the command for gauge i of that cycle.
C18_ReadingsAreAttributed ==
  ~ARGS.interactive =>
    \A i \in 1..Len(readings) :
      readings[i] # << >> => readings[i] = DeviceReading(gauges[i])

=============================================================================
